---- MODULE Spec2Model ----
(***************************************************************************)
(* A model of quart/wrappers/request.py: the Body container (an asyncio    *)
(* Future plus an asyncio Queue) and the Request that owns one.            *)
(*                                                                         *)
(* Every action is one uninterrupted run of code between two suspension    *)
(* points of the asyncio event loop.  The producer (append, set_complete)  *)
(* is synchronous code called from the transport; consumers are tasks that *)
(* suspend in `await body` or in `asyncio.wait` inside __anext__.  The     *)
(* coroutine `self._stream.get()` that __anext__ hands to asyncio.wait     *)
(* becomes a task of its own, with its own steps.                          *)
(*                                                                         *)
(* Body never inspects the bytes it carries, so every byte is tagged with  *)
(* its arrival position (the k-th byte ever appended is the number k): a   *)
(* lost, duplicated or reordered byte is then visible in the data itself.  *)
(***************************************************************************)
EXTENDS Integers, Sequences, FiniteSets

\* ---- bounds of the model ------------------------------------------------
NumTasks == 2        \* consumer tasks
MaxAppends == 2      \* calls of Body.append
MaxChunkLen == 2     \* bytes in one appended chunk
MaxCap == 2          \* largest max_content_length tried
MaxAnext == 2        \* calls of Body.__anext__ (each creates one get task)
MaxCompletes == 2    \* calls of Body.set_complete
MaxHdrLen == 2       \* characters in a Content-Length header value

\* ---- Python values ------------------------------------------------------
\* Optional[T]: None is the empty set, a value x is {x}.
None == {}
Some(x) == {x}
TheValue(o) == CHOOSE x \in o : TRUE

Tasks == 1..NumTasks
GetIds == 1..MaxAnext
ChunkLens == 0..MaxChunkLen
Caps == {None} \cup {Some(n) : n \in 0..MaxCap}

\* bytearray.extend over a list of chunks, in order
RECURSIVE Concat(_)
Concat(chunks) ==
    IF chunks = <<>> THEN <<>> ELSE Head(chunks) \o Concat(Tail(chunks))

\* the chunk of n bytes that arrives after `before` bytes have arrived
Chunk(before, n) == [i \in 1..n |-> before + i]

\* ---- headers ------------------------------------------------------------
HdrChars == {"0", "1", "2", "-", "x"}
RECURSIVE StringsUpTo(_)
StringsUpTo(n) ==
    IF n = 0 THEN {<<>>}
    ELSE LET shorter == StringsUpTo(n - 1)
         IN  shorter \cup {Append(s, c) : s \in {x \in shorter : Len(x) = n - 1},
                                           c \in HdrChars}
HdrStrings == StringsUpTo(MaxHdrLen)
ContentTypes ==
    {None, Some("application/x-www-form-urlencoded"),
     Some("multipart/form-data"), Some("text/plain")}

Digits == {"0", "1", "2"}
DigitVal(c) == IF c = "0" THEN 0 ELSE IF c = "1" THEN 1 ELSE 2
RECURSIVE DigitsVal(_)
DigitsVal(s) ==
    IF s = <<>> THEN 0
    ELSE 10 * DigitsVal(SubSeq(s, 1, Len(s) - 1)) + DigitVal(s[Len(s)])
AllDigits(s) == s # <<>> /\ \A i \in 1..Len(s) : s[i] \in Digits
\* int(content_length): a value, or None where Python raises ValueError
IntParse(s) ==
    IF AllDigits(s) THEN Some(DigitsVal(s))
    ELSE IF s # <<>> /\ s[1] = "-" /\ AllDigits(Tail(s))
         THEN Some(0 - DigitsVal(Tail(s)))
         ELSE None

VARIABLES
    \* Request
    reqState,            \* "new", "ok", "too_large" or "value_error"
    headers,             \* [content_length, content_type], each Optional
    max_content_length,  \* Request.max_content_length
    hasBody,             \* Request.body has been assigned
    _form, _files,       \* Request._form, Request._files
    decodes,             \* the form decoders accept the bytes this request receives
    \* Body
    _body,               \* the Future: [done, result]
    _stream,             \* the Queue's items
    _getters,            \* the Queue's waiting getters (get task ids)
    _size,
    _max_content_length,
    \* tasks
    gtask,               \* the tasks running self._stream.get()
    pc,                  \* where each consumer task is suspended
    waitGet,             \* the get task a consumer in __anext__ waits on
    \* history
    appended,            \* every chunk passed to append, in call order
    raised,              \* for each of them, whether append raised
    completes,           \* calls of set_complete
    appendsAtComplete,   \* Optional: appends made before the first set_complete
    yielded,             \* per task, the chunks __anext__ returned to it
    fullReads,           \* the values `await body` has returned
    lastRead,            \* per task, Optional: the last of them it was given
    callsAfterRaise,     \* the producer called again after append raised
    eos,                 \* per task, StopAsyncIteration was raised to it
    nAnext,              \* calls of __anext__
    loads                \* times _load_form_data assigned the two caches

reqVars == <<reqState, headers, max_content_length, hasBody, _form, _files,
            decodes>>
bodyVars == <<_body, _stream, _getters, _size, _max_content_length>>
taskVars == <<gtask, pc, waitGet>>
histVars == <<appended, raised, completes, appendsAtComplete, yielded,
              fullReads, lastRead, callsAfterRaise, eos, nAnext, loads>>
vars == <<reqVars, bodyVars, taskVars, histVars>>

TotalLen(chunks) == Len(Concat(chunks))
RECURSIVE SumYielded(_)
SumYielded(ts) ==
    IF ts = {} THEN 0
    ELSE LET t == CHOOSE x \in ts : TRUE
         IN  TotalLen(yielded[t]) + SumYielded(ts \ {t})
YieldedBytes == SumYielded(Tasks)

\* ---- Request.__init__ ---------------------------------------------------
\* fault injection: a declared length equal to the limit is refused too
RequestInitOutcomeAtLimit(cl, mcl) ==
    IF cl # None /\ mcl # None
    THEN IF IntParse(TheValue(cl)) = None THEN "value_error"
         ELSE IF TheValue(IntParse(TheValue(cl))) >= TheValue(mcl)
              THEN "too_large" ELSE "ok"
    ELSE "ok"

\* lines 107-114: which way Request.__init__ ends
RequestInitOutcome(cl, mcl) ==
    IF cl # None /\ mcl # None
    THEN IF IntParse(TheValue(cl)) = None THEN "value_error"
         ELSE IF TheValue(IntParse(TheValue(cl))) > TheValue(mcl)
              THEN "too_large" ELSE "ok"
    ELSE "ok"

NoGetTask == [st |-> "none", data |-> <<>>]

\* the state before anything has run on a Body(cap)
Body__init__(cap) ==
    /\ _body = [done |-> FALSE, result |-> <<>>]
    /\ _stream = <<>>
    /\ _getters = <<>>
    /\ _size = 0
    /\ _max_content_length = cap

QuietTasks ==
    /\ gtask = [g \in GetIds |-> NoGetTask]
    /\ pc = [t \in Tasks |-> "idle"]
    /\ waitGet = [t \in Tasks |-> 0]

EmptyHistory ==
    /\ appended = <<>>
    /\ raised = <<>>
    /\ completes = 0
    /\ appendsAtComplete = None
    /\ yielded = [t \in Tasks |-> <<>>]
    /\ fullReads = {}
    /\ lastRead = [t \in Tasks |-> None]
    /\ callsAfterRaise = FALSE
    /\ eos = [t \in Tasks |-> FALSE]
    /\ nAnext = 0
    /\ loads = 0

\* no Request object yet
InitNew ==
    /\ reqState = "new"
    /\ headers = [content_length |-> None, content_type |-> None]
    /\ max_content_length = None
    /\ hasBody = FALSE
    /\ _form = None
    /\ _files = None
    /\ decodes = TRUE
    /\ Body__init__(None)
    /\ QuietTasks
    /\ EmptyHistory

Request__init__(cl, ct, mcl) ==
    /\ reqState = "new"
    /\ headers' = [content_length |-> cl, content_type |-> ct]
    /\ max_content_length' = mcl
    /\ reqState' = RequestInitOutcome(cl, mcl)
    /\ IF RequestInitOutcome(cl, mcl) = "ok"
       THEN \* self.body = Body(self.max_content_length), then the two caches
            /\ hasBody' = TRUE
            /\ _body' = [done |-> FALSE, result |-> <<>>]
            /\ _stream' = <<>>
            /\ _getters' = <<>>
            /\ _size' = 0
            /\ _max_content_length' = mcl
            /\ _form' = None
            /\ _files' = None
       ELSE \* int() or the length test raised before line 115
            UNCHANGED <<hasBody, bodyVars, _form, _files>>
    /\ UNCHANGED <<decodes, taskVars, histVars>>

\* ---- Body.append --------------------------------------------------------
\* fault injection: a body that just reaches the cap is refused too
TooLargeAtCap(size, cap) == cap # None /\ size >= TheValue(cap)

\* line 62: the test that raises RequestEntityTooLarge
TooLarge(size, cap) == cap # None /\ size > TheValue(cap)

\* fault injection: the new item goes to the head of the queue
EnqueueAtHead(stream, data) == <<data>> \o stream

\* line 60: Queue.put_nowait adds the item at the tail
Enqueue(stream, data) == Append(stream, data)

\* fault injection: a chunk that takes the body over the cap is not counted
SizeAfterRefusedAppend(size, data) ==
    IF TooLarge(size + Len(data), _max_content_length) THEN size
    ELSE size + Len(data)

\* line 61: self._size += len(data), before the cap is tested
SizeAfterAppend(size, data) == size + Len(data)

Aborted == \E i \in 1..Len(raised) : raised[i]

append(n) ==
    LET data == Chunk(TotalLen(appended), n)
    IN  /\ hasBody
        /\ Len(appended) < MaxAppends
        /\ _stream' = Enqueue(_stream, data)
        /\ _size' = SizeAfterAppend(_size, data)
        /\ callsAfterRaise' = (callsAfterRaise \/ Aborted)
        /\ raised' = Append(raised, TooLarge(_size + Len(data), _max_content_length))
        /\ appended' = Append(appended, data)
        \* Queue.put_nowait wakes the first waiting getter
        /\ IF _getters # <<>>
           THEN /\ _getters' = Tail(_getters)
                /\ gtask' = [gtask EXCEPT ![Head(_getters)].st = "woken"]
           ELSE UNCHANGED <<_getters, gtask>>
        /\ UNCHANGED <<_body, _max_content_length, pc, waitGet, reqVars>>
        /\ UNCHANGED <<completes, appendsAtComplete, yielded, fullReads, lastRead,
                       eos, nAnext, loads>>

\* ---- Body.set_complete --------------------------------------------------
\* fault injection: the buffer is built newest chunk first
RECURSIVE DrainNewestFirst(_)
DrainNewestFirst(stream) ==
    IF stream = <<>> THEN <<>> ELSE DrainNewestFirst(Tail(stream)) \o Head(stream)

\* lines 67-71: get_nowait until QueueEmpty, extending the buffer
Drain(stream) == Concat(stream)

\* fault injection: an empty buffer is not worth a result
FutureSetResultIfData(fut, value) ==
    IF fut.done \/ value = <<>> THEN fut ELSE [done |-> TRUE, result |-> value]

\* fault injection: a done Future is given the new value
FutureOverwriteResult(fut, value) == [done |-> TRUE, result |-> value]

\* Future.set_result; on a done Future it raises InvalidStateError instead
FutureSetResult(fut, value) ==
    IF fut.done THEN fut ELSE [done |-> TRUE, result |-> value]

set_complete ==
    /\ hasBody
    /\ completes < MaxCompletes
    /\ completes' = completes + 1
    /\ appendsAtComplete' =
           IF completes = 0 THEN Some(Len(appended)) ELSE appendsAtComplete
    /\ _stream' = <<>>
    /\ _body' = FutureSetResult(_body, Drain(_stream))
    /\ callsAfterRaise' = (callsAfterRaise \/ Aborted)
    /\ UNCHANGED <<_getters, _size, _max_content_length, taskVars, reqVars>>
    /\ UNCHANGED <<appended, raised, yielded, fullReads, lastRead, eos, nAnext, loads>>

\* ---- Body.set_result ----------------------------------------------------
\* The bytes a caller may hand over: none, or one byte that no append brought
\* (appended bytes are tagged from 1 upward).
ResultValues == {<<>>, <<0>>}

\* lines 74-76: the Future is given `data` directly; the queue, the counter
\* and the getters are not touched
set_result(data) ==
    /\ hasBody
    /\ _body' = FutureSetResult(_body, data)
    /\ UNCHANGED <<_stream, _getters, _size, _max_content_length, taskVars, reqVars,
                   histVars>>

\* history: `await self._body` gave `value` to task t
Returned(t, value) ==
    /\ fullReads' = fullReads \cup {value}
    /\ lastRead' = [lastRead EXCEPT ![t] = Some(value)]

\* ---- Body.__await__ -----------------------------------------------------
\* `await self._body`: a done Future returns its result without suspending
__await__(t) ==
    /\ hasBody
    /\ pc[t] = "idle"
    /\ IF _body.done
       THEN /\ Returned(t, _body.result)
            /\ UNCHANGED pc
       ELSE /\ pc' = [pc EXCEPT ![t] = "await"]
            /\ UNCHANGED <<fullReads, lastRead>>
    /\ UNCHANGED <<gtask, waitGet, bodyVars, reqVars>>
    /\ UNCHANGED <<appended, raised, completes, appendsAtComplete, yielded,
                   callsAfterRaise, eos, nAnext, loads>>

\* the task is woken once the Future is done
__await__resumed(t) ==
    /\ pc[t] = "await"
    /\ _body.done
    /\ pc' = [pc EXCEPT ![t] = "idle"]
    /\ Returned(t, _body.result)
    /\ UNCHANGED <<gtask, waitGet, bodyVars, reqVars>>
    /\ UNCHANGED <<appended, raised, completes, appendsAtComplete, yielded,
                   callsAfterRaise, eos, nAnext, loads>>

\* ---- Request.get_data ---------------------------------------------------
\* `raw` only selects whether the value of `await self.body` is decoded
\* before it is returned; the wait and the value read are the same.
get_data(t) ==
    /\ hasBody
    /\ pc[t] = "idle"
    /\ IF _body.done
       THEN /\ Returned(t, _body.result)
            /\ UNCHANGED pc
       ELSE /\ pc' = [pc EXCEPT ![t] = "get_data"]
            /\ UNCHANGED <<fullReads, lastRead>>
    /\ UNCHANGED <<gtask, waitGet, bodyVars, reqVars>>
    /\ UNCHANGED <<appended, raised, completes, appendsAtComplete, yielded,
                   callsAfterRaise, eos, nAnext, loads>>

get_data_resumed(t) ==
    /\ pc[t] = "get_data"
    /\ _body.done
    /\ pc' = [pc EXCEPT ![t] = "idle"]
    /\ Returned(t, _body.result)
    /\ UNCHANGED <<gtask, waitGet, bodyVars, reqVars>>
    /\ UNCHANGED <<appended, raised, completes, appendsAtComplete, yielded,
                   callsAfterRaise, eos, nAnext, loads>>

\* ---- Request._load_form_data, after `data = await self.body` ------------
\* A MultiDict is kept as what it was filled from: the decoders (parse_qs,
\* cgi.FieldStorage) are library code working on the fully read bytes.
EmptyMultiDict == [filled |-> "empty", from |-> <<>>]
IsFormType(ct) ==
    ct \in {Some("application/x-www-form-urlencoded"), Some("multipart/form-data")}
ParsedForm(ct, data) ==
    IF IsFormType(ct) THEN [filled |-> "fields", from |-> data] ELSE EmptyMultiDict
ParsedFiles(ct, data) ==
    IF ct = Some("multipart/form-data")
    THEN [filled |-> "files", from |-> data] ELSE EmptyMultiDict

\* fault injection: the loader fills the form cache and forgets the files
_load_form_only(data, ok) ==
    /\ _form' = Some(IF ok THEN ParsedForm(headers.content_type, data)
                     ELSE EmptyMultiDict)
    /\ UNCHANGED _files
    /\ loads' = loads + 1

\* Both attributes are assigned empty MultiDicts first; a decoder that raises
\* (ok = FALSE) leaves them so.
_load_form_data(data, ok) ==
    /\ _form' = Some(IF ok THEN ParsedForm(headers.content_type, data)
                     ELSE EmptyMultiDict)
    /\ _files' = Some(IF ok THEN ParsedFiles(headers.content_type, data)
                      ELSE EmptyMultiDict)
    /\ loads' = loads + 1

\* parse_qs and FieldStorage are functions of the bytes: the same body decodes
\* or fails to decode each time it is handed to them
DecoderOutcomes == IF IsFormType(headers.content_type) THEN BOOLEAN ELSE {TRUE}

\* ---- Request.form -------------------------------------------------------
form(t) ==
    /\ hasBody
    /\ pc[t] = "idle"
    /\ IF _form # None
       THEN UNCHANGED <<pc, fullReads, lastRead, _form, _files, loads>>
       ELSE IF _body.done
            THEN /\ Returned(t, _body.result)
                 /\ _load_form_data(_body.result, decodes)
                 /\ UNCHANGED pc
            ELSE /\ pc' = [pc EXCEPT ![t] = "form"]
                 /\ UNCHANGED <<fullReads, lastRead, _form, _files, loads>>
    /\ UNCHANGED <<reqState, headers, max_content_length, hasBody, decodes>>
    /\ UNCHANGED <<gtask, waitGet, bodyVars>>
    /\ UNCHANGED <<appended, raised, completes, appendsAtComplete, yielded,
                   callsAfterRaise, eos, nAnext>>

form_resumed(t) ==
    /\ pc[t] = "form"
    /\ _body.done
    /\ pc' = [pc EXCEPT ![t] = "idle"]
    /\ Returned(t, _body.result)
    /\ _load_form_data(_body.result, decodes)
    /\ UNCHANGED <<reqState, headers, max_content_length, hasBody, decodes>>
    /\ UNCHANGED <<gtask, waitGet, bodyVars>>
    /\ UNCHANGED <<appended, raised, completes, appendsAtComplete, yielded,
                   callsAfterRaise, eos, nAnext>>

\* ---- Request.files ------------------------------------------------------
files(t) ==
    /\ hasBody
    /\ pc[t] = "idle"
    /\ IF _files # None
       THEN UNCHANGED <<pc, fullReads, lastRead, _form, _files, loads>>
       ELSE IF _body.done
            THEN /\ Returned(t, _body.result)
                 /\ _load_form_data(_body.result, decodes)
                 /\ UNCHANGED pc
            ELSE /\ pc' = [pc EXCEPT ![t] = "files"]
                 /\ UNCHANGED <<fullReads, lastRead, _form, _files, loads>>
    /\ UNCHANGED <<reqState, headers, max_content_length, hasBody, decodes>>
    /\ UNCHANGED <<gtask, waitGet, bodyVars>>
    /\ UNCHANGED <<appended, raised, completes, appendsAtComplete, yielded,
                   callsAfterRaise, eos, nAnext>>

files_resumed(t) ==
    /\ pc[t] = "files"
    /\ _body.done
    /\ pc' = [pc EXCEPT ![t] = "idle"]
    /\ Returned(t, _body.result)
    /\ _load_form_data(_body.result, decodes)
    /\ UNCHANGED <<reqState, headers, max_content_length, hasBody, decodes>>
    /\ UNCHANGED <<gtask, waitGet, bodyVars>>
    /\ UNCHANGED <<appended, raised, completes, appendsAtComplete, yielded,
                   callsAfterRaise, eos, nAnext>>

\* ---- Body.__anext__ -----------------------------------------------------
\* asyncio.wait wraps self._stream.get() in a new task, registers itself on
\* that task and on the Future, and suspends the caller.
__anext__(t) ==
    /\ hasBody
    /\ pc[t] = "idle"
    /\ nAnext < MaxAnext
    /\ nAnext' = nAnext + 1
    /\ gtask' = [gtask EXCEPT ![nAnext + 1] = [st |-> "scheduled", data |-> <<>>]]
    /\ waitGet' = [waitGet EXCEPT ![t] = nAnext + 1]
    /\ pc' = [pc EXCEPT ![t] = "anext"]
    /\ UNCHANGED <<bodyVars, reqVars>>
    /\ UNCHANGED <<appended, raised, completes, appendsAtComplete, yielded, fullReads,
                   lastRead, callsAfterRaise, eos, loads>>

\* One step of a task running Queue.get(): its first step, or the step after
\* put_nowait woke its getter.  `while self.empty(): await getter`, then
\* `return self.get_nowait()`.
\* fault injection: the item is read but stays in the queue
DequeueKeeps(stream) == stream

\* Queue.get_nowait takes the item at the head
Dequeue(stream) == Tail(stream)

_stream_get(g) ==
    /\ gtask[g].st \in {"scheduled", "woken"}
    /\ IF _stream = <<>>
       THEN /\ _getters' = Append(_getters, g)
            /\ gtask' = [gtask EXCEPT ![g].st = "waiting"]
            /\ UNCHANGED _stream
       ELSE /\ _stream' = Dequeue(_stream)
            /\ gtask' = [gtask EXCEPT ![g] = [st |-> "done", data |-> Head(_stream)]]
            /\ UNCHANGED _getters
    /\ UNCHANGED <<_body, _size, _max_content_length, pc, waitGet, reqVars, histVars>>

\* The caller of asyncio.wait resumes once the Future or the get task is
\* done.  The get task's first step was queued on the loop before any
\* completion callback, so it has run by then.
\* fault injection: the caller waits for the queue alone
WaitReturnsOnData(g) == gtask[g].st = "done"

\* fault injection: the counter forgets nothing
SizeKeptAfterYield(size, data) == size

\* line 53: self._size -= len(data)
SizeAfterYield(size, data) == size - Len(data)

\* fault injection: a chunk the get task holds is yielded before the stream ends
EndOfStreamUnlessData(g) == _body.done /\ gtask[g].st # "done"

\* lines 46-47: if self._body.done(): raise StopAsyncIteration()
EndOfStream(g) == _body.done

\* lines 43-45: asyncio.wait([self._body, get], return_when=FIRST_COMPLETED)
WaitReturns(g) == _body.done \/ gtask[g].st = "done"

__anext__resumed(t) ==
    LET g == waitGet[t]
    IN  /\ pc[t] = "anext"
        /\ gtask[g].st # "scheduled"
        /\ WaitReturns(g)
        /\ pc' = [pc EXCEPT ![t] = "idle"]
        /\ waitGet' = [waitGet EXCEPT ![t] = 0]
        /\ IF EndOfStream(g)
           THEN \* raise StopAsyncIteration(); the get task is left as it is
                /\ eos' = [eos EXCEPT ![t] = TRUE]
                /\ UNCHANGED <<gtask, _size, yielded>>
           ELSE \* `done` holds the get task alone
                /\ yielded' = [yielded EXCEPT ![t] = Append(@, gtask[g].data)]
                /\ _size' = SizeAfterYield(_size, gtask[g].data)
                /\ gtask' = [gtask EXCEPT ![g].st = "returned"]
                /\ UNCHANGED eos
        /\ UNCHANGED <<_body, _stream, _getters, _max_content_length, reqVars>>
        /\ UNCHANGED <<appended, raised, completes, appendsAtComplete, fullReads,
                       lastRead, callsAfterRaise, nAnext, loads>>

\* A constructed Request: what a successful Request.__init__ leaves.
Constructed(cl, ct, mcl) ==
    /\ reqState = "ok"
    /\ headers = [content_length |-> cl, content_type |-> ct]
    /\ max_content_length = mcl
    /\ hasBody = TRUE
    /\ _form = None
    /\ _files = None
    /\ Body__init__(mcl)
    /\ QuietTasks
    /\ EmptyHistory

\* ---- the Body, fed by the transport and consumed through its own two -----
\* ---- interfaces (`await body`, `async for data in body`) -----------------
Init == decodes = TRUE /\ \E mcl \in Caps : Constructed(None, None, mcl)

Producer ==
    \/ \E n \in ChunkLens : append(n)
    \/ set_complete

Next ==
    \/ Producer
    \/ \E t \in Tasks :
        \/ __await__(t) \/ __await__resumed(t)
        \/ __anext__(t) \/ __anext__resumed(t)
    \/ \E g \in GetIds : _stream_get(g)

Spec == Init /\ [][Next]_vars

\* ---- the Request's accessors, each a full read of the Body ---------------
\* get_data, form and files reach the Body through `await self.body` alone,
\* so for the Body they are further callers of __await__; they are run here,
\* with every content type, next to direct awaits and the same producer.
InitRequest ==
    /\ \E ct \in ContentTypes, mcl \in {None, Some(MaxCap)} : Constructed(None, ct, mcl)
    /\ decodes \in DecoderOutcomes

NextRequest ==
    \/ Producer
    \/ \E t \in Tasks :
        \/ __await__(t) \/ __await__resumed(t)
        \/ get_data(t) \/ get_data_resumed(t)
        \/ form(t) \/ form_resumed(t)
        \/ files(t) \/ files_resumed(t)

SpecRequest == InitRequest /\ [][NextRequest]_vars

\* ---- the Body with the direct set_result as well -------------------------
NextResult ==
    \/ Next
    \/ \E data \in ResultValues : set_result(data)

SpecResult == Init /\ [][NextResult]_vars

\* ---- Request.__init__ on every header and limit --------------------------
NextInit ==
    \E cl \in {None} \cup {Some(s) : s \in HdrStrings}, ct \in ContentTypes,
       mcl \in Caps : Request__init__(cl, ct, mcl)

SpecInit == InitNew /\ [][NextInit]_vars

\* ---- the event loop runs every callback that is ready --------------------
\* A task whose Future is done, and a get task that was scheduled or woken,
\* sit in the loop's ready queue and are run.  Nothing obliges the transport
\* to call the producer again, nor a consumer to start a new operation.
LoopFairness ==
    /\ \A t \in Tasks : WF_vars(__await__resumed(t)) /\ WF_vars(__anext__resumed(t))
    /\ \A g \in GetIds : WF_vars(_stream_get(g))

FairSpec == Spec /\ LoopFairness

\* ==== properties ==========================================================
Range(seq) == {seq[i] : i \in 1..Len(seq)}
Increasing(seq) == \A i, j \in 1..Len(seq) : i < j => seq[i] < seq[j]
NoRepeat(seq) == \A i, j \in 1..Len(seq) : i # j => seq[i] # seq[j]
Suspended(t) == pc[t] # "idle"

\* the chunks appended before the first set_complete, all without raising
AppendedBeforeComplete == SubSeq(appended, 1, TheValue(appendsAtComplete))
CleanFeed ==
    /\ appendsAtComplete # None
    /\ \A i \in 1..TheValue(appendsAtComplete) : ~raised[i]

\* C1: a Body on which no iteration step was ever taken and that was fed
\* chunks c1..cn, each append succeeding, and then completed, holds exactly
\* c1 ++ ... ++ cn as its result, and every full read has returned exactly
\* that, however the bytes were split into chunks.
C1_FullReadIsConcatenation ==
    (nAnext = 0 /\ CleanFeed) =>
        /\ _body.done
        /\ _body.result = Concat(AppendedBeforeComplete)
        /\ \A v \in fullReads : v = Concat(AppendedBeforeComplete)

C1_Witness ==
    /\ nAnext = 0
    /\ CleanFeed
    /\ appendsAtComplete = Some(2)
    /\ Len(appended[1]) = 1
    /\ Len(appended[2]) = 2
    /\ lastRead[1] = Some(<<1, 2, 3>>)

\* task t is the only consumer there has been, and it only iterated
OnlyIterator(t) ==
    /\ fullReads = {}
    /\ \A u \in Tasks \ {t} : pc[u] = "idle" /\ yielded[u] = <<>> /\ ~eos[u]

\* the producer made its appends, none raising, and then one set_complete
ProperProducer ==
    /\ CleanFeed
    /\ completes = 1
    /\ Len(appended) = TheValue(appendsAtComplete)

\* C2: with one producer (appends, then set_complete) and one consumer that
\* iterates until StopAsyncIteration, the chunks the iterator yielded
\* concatenate to everything that was appended.
C2_IterationYieldsEverything ==
    \A t \in Tasks :
        (eos[t] /\ OnlyIterator(t) /\ ProperProducer) =>
            Concat(yielded[t]) = Concat(appended)

\* C3: append raises RequestEntityTooLarge exactly when a cap is set and the
\* bytes counted as buffered once this chunk is added (all bytes appended,
\* less the bytes iteration has yielded) exceed the cap; with cap 2, chunks
\* of sizes 2, 2 raise on the second append, and chunks of sizes 1, 1 do not
\* raise and leave the size counter at the cap.
C3_AppendRaisesIffOverCap ==
    /\ [][Len(appended') = Len(appended) + 1 =>
            (raised'[Len(raised')] <=>
                /\ _max_content_length # None
                /\ TotalLen(appended') - YieldedBytes > TheValue(_max_content_length))
         ]_vars
    /\ []((_max_content_length = Some(2) /\ Len(appended) = 2 /\ nAnext = 0) =>
            /\ (Len(appended[1]) = 2 /\ Len(appended[2]) = 2) => raised = <<FALSE, TRUE>>
            /\ (Len(appended[1]) = 1 /\ Len(appended[2]) = 1) =>
                    (raised = <<FALSE, FALSE>> /\ _size = 2))

C3_Witness ==
    /\ _max_content_length = Some(2)
    /\ Len(appended) = 2
    /\ Len(appended[1]) = 1
    /\ Len(appended[2]) = 1
    /\ raised = <<FALSE, FALSE>>
    /\ _size = 2

\* the Content-Length header is present and is an integer above the limit
DeclaredTooLarge ==
    /\ headers.content_length # None
    /\ max_content_length # None
    /\ IntParse(TheValue(headers.content_length)) # None
    /\ TheValue(IntParse(TheValue(headers.content_length))) > TheValue(max_content_length)

\* the Content-Length header has to be converted and is no integer
DeclaredUnreadable ==
    /\ headers.content_length # None
    /\ max_content_length # None
    /\ IntParse(TheValue(headers.content_length)) = None

NoBody == ~hasBody /\ appended = <<>> /\ _stream = <<>>
NewBody ==
    /\ hasBody
    /\ _body = [done |-> FALSE, result |-> <<>>]
    /\ _stream = <<>>
    /\ _size = 0
    /\ _max_content_length = max_content_length
    /\ _form = None
    /\ _files = None

\* C4 as claimed: construction fails as too large exactly when the declared
\* length is above the limit, before any Body exists, and succeeds with a
\* new empty Body in every other case.
C4_ConstructionAsClaimed ==
    reqState # "new" =>
        /\ reqState = "too_large" <=> DeclaredTooLarge
        /\ reqState = "too_large" => NoBody
        /\ reqState # "too_large" => (reqState = "ok" /\ NewBody)

\* C4 as amended: the same, except that a Content-Length that is no integer,
\* with a limit set, makes construction fail in int() with no Body created.
C4_Construction ==
    reqState # "new" =>
        /\ reqState = "too_large" <=> DeclaredTooLarge
        /\ reqState = "value_error" <=> DeclaredUnreadable
        /\ reqState \in {"too_large", "value_error"} => NoBody
        /\ reqState \notin {"too_large", "value_error"} => (reqState = "ok" /\ NewBody)

C4_Witness ==
    /\ reqState = "too_large"
    /\ headers.content_length = Some(<<"1", "1">>)
    /\ max_content_length = Some(2)
    /\ NoBody

\* C5: after set_complete has been called, a consumer that is suspended, in
\* `await body` or in an iteration step, is eventually resumed.
C5_CompletionWakesWaiters ==
    \A t \in Tasks : (completes > 0 /\ Suspended(t)) ~> ~Suspended(t)

C5_Witness ==
    /\ completes = 1
    /\ pc[1] = "await"
    /\ pc[2] = "anext"
    /\ gtask[waitGet[2]].st = "waiting"

\* C6: once append has raised, a suspended consumer is eventually unblocked,
\* unless the producer goes on calling.  (The code has no way to hand a
\* suspended consumer an error, so being unblocked at all is what is asked.)
C6_AbortUnblocksWaiters ==
    \A t \in Tasks :
        (Aborted /\ Suspended(t)) ~> (~Suspended(t) \/ callsAfterRaise)

\* C7: every full read of one Body, from `await body`, get_data or the
\* form/files loader, early or late, sequential or concurrent, returns the
\* same bytes: the Future's result.
C7_FullReadsAgree ==
    /\ Cardinality(fullReads) <= 1
    /\ \A t \in Tasks : lastRead[t] # None => lastRead[t] = Some(_body.result)
    /\ \A v \in fullReads : v = _body.result

C7_Witness ==
    /\ lastRead[1] = Some(<<1, 2>>)
    /\ lastRead[2] = Some(<<1, 2>>)
    /\ _form # None
    /\ Len(appended) > TheValue(appendsAtComplete)

\* C8: no Body is consumed in both modes: once an iteration step has yielded
\* data, no full read of that Body returns.
C8_ModesNotMixed ==
    (\E t \in Tasks : yielded[t] # <<>>) => fullReads = {}

\* everything handed out: per task what iteration yielded, then the result
RECURSIVE YieldedBy(_)
YieldedBy(ts) ==
    IF ts = {} THEN <<>>
    ELSE LET t == CHOOSE x \in ts : TRUE
         IN  Concat(yielded[t]) \o YieldedBy(ts \ {t})
Delivered == YieldedBy(Tasks) \o _body.result

\* C9: no byte is delivered twice: not by two iteration steps, and not by an
\* iteration step and the assembled result.
C9_NoDoubleDelivery == NoRepeat(Delivered)

C9_Witness ==
    /\ Concat(yielded[1]) # <<>>
    /\ _body.done
    /\ _body.result # <<>>

\* C10: what one consumer receives from successive iteration steps is in
\* append order, and each value it receives is one appended chunk, whole.
C10_IterationInAppendOrder ==
    \A t \in Tasks :
        /\ Increasing(Concat(yielded[t]))
        /\ \A i \in 1..Len(yielded[t]) : yielded[t][i] \in Range(appended)

C10_Witness ==
    \E t \in Tasks :
        /\ Len(yielded[t]) = 2
        /\ yielded[t][1] # <<>>
        /\ yielded[t][2] # <<>>
\* ---- C11 ------------------------------------------------------------------
\* The body nothing was appended to, once set_complete was called
EmptyBody == appended = <<>> /\ completes >= 1

\* C11: with zero appends followed by set_complete, the Future is resolved with
\* the empty byte string, every full read returns the empty byte string, no
\* iteration step has yielded a chunk, and every iteration step that returns,
\* whether it was started before or after set_complete, signals end-of-stream
\* and yields nothing.
C11_EmptyBody ==
    /\ [](EmptyBody =>
            /\ _body.done /\ _body.result = <<>>
            /\ fullReads \subseteq {<<>>}
            /\ \A t \in Tasks : yielded[t] = <<>>)
    /\ [][\A t \in Tasks :
            (EmptyBody' /\ pc[t] = "anext" /\ pc'[t] = "idle") =>
                (eos'[t] /\ yielded' = yielded)]_vars

C11_Witness ==
    /\ EmptyBody
    /\ \A t \in Tasks : eos[t]
    /\ lastRead[1] = Some(<<>>)
    /\ \E g \in GetIds : gtask[g].st = "waiting"

\* ---- C12 ------------------------------------------------------------------
\* C12: the form and files caches are assigned a single time, for every
\* interleaving of accesses by one or several tasks, those included whose first
\* accesses start while the body is incomplete.
C12_CachesAssignedOnce == loads <= 1

\* ---- C13 ------------------------------------------------------------------
\* C13: once the Future is resolved it never becomes unresolved again and its
\* value never changes, whatever runs afterwards: further append calls, a
\* second set_complete, set_result, full reads, iteration steps.
C13_ResultWriteOnce == [][_body.done => _body' = _body]_vars

\* set_complete resolved the body with a chunk; an append and a second
\* set_complete came afterwards
C13_Witness ==
    /\ completes = 2
    /\ Len(appended) > TheValue(appendsAtComplete)
    /\ appended[Len(appended)] # <<>>
    /\ _body.done
    /\ _body.result # <<>>
    /\ _body.result = Concat(AppendedBeforeComplete)

\* ---- C14 ------------------------------------------------------------------
\* C14 as stated: the result assembled by set_complete is the concatenation,
\* in append order, of every chunk appended up to that call, iteration steps
\* before the call or not.
C14_ResultIsEverythingAppended ==
    _body.done => _body.result = Concat(AppendedBeforeComplete)

\* the bytes some iteration step's get task has taken from the queue
DequeuedBytes == UNION {Range(gtask[g].data) : g \in GetIds}
NotDequeued(b) == b \notin DequeuedBytes

\* C14, amended: the result assembled by set_complete is the concatenation, in
\* append order, of the chunks appended up to that call that no iteration
\* step's get task had dequeued; it is every chunk appended when no iteration
\* step ran before the call.
C14_ResultIsWhatWasPending ==
    _body.done =>
        /\ _body.result = SelectSeq(Concat(AppendedBeforeComplete), NotDequeued)
        /\ (nAnext = 0 => _body.result = Concat(AppendedBeforeComplete))

\* an iteration step yielded the first chunk, set_complete assembled the rest
C14_Witness ==
    /\ _body.done
    /\ _body.result # <<>>
    /\ \E t \in Tasks : yielded[t] # <<>> /\ yielded[t][1] # <<>>
    /\ _body.result # Concat(AppendedBeforeComplete)

\* ---- C15 ------------------------------------------------------------------
\* C15 as stated: in every reachable state the size counter equals the sum of
\* the lengths of the chunks in the pending queue.
C15_SizeIsQueueTotal == _size = TotalLen(_stream)

\* the chunks that get tasks hold for iteration steps that have not returned
RECURSIVE HeldLen(_)
HeldLen(gs) ==
    IF gs = {} THEN 0
    ELSE LET g == CHOOSE x \in gs : TRUE
         IN  (IF gtask[g].st = "done" THEN Len(gtask[g].data) ELSE 0)
             + HeldLen(gs \ {g})

\* C15, amended: the size counter is the number of bytes appended minus the
\* number of bytes iteration steps have returned; until set_complete is called
\* that is the total length of the pending queue plus the chunks dequeued for
\* iteration steps that have not returned yet.
C15_SizeIsAppendedLessYielded ==
    /\ _size = TotalLen(appended) - YieldedBytes
    /\ (completes = 0 => _size = TotalLen(_stream) + HeldLen(GetIds))

\* set_complete emptied a queue of unread bytes after an iteration step
C15_Witness ==
    /\ completes >= 1
    /\ _stream = <<>>
    /\ _size > 0
    /\ YieldedBytes > 0

\* ---- C16 ------------------------------------------------------------------
\* the get task of an iteration step takes from the queue in this step
Dequeues(g) == gtask[g].st # "done" /\ gtask'[g].st = "done"
\* the iteration step of task t returns a chunk in this step
Yields(t) == yielded'[t] # yielded[t]

\* C16 as stated: an iteration step that finds k >= 1 chunks pending on a body
\* that is not complete removes all k of them and holds their concatenation
\* in order as its one chunk; none of them stays in the queue.
C16_StepTakesAllPending ==
    [][\A g \in GetIds :
        (Dequeues(g) /\ ~_body.done) =>
            (_stream' = <<>> /\ gtask'[g].data = Concat(_stream))]_vars

\* C16, amended: an iteration step that finds k >= 1 chunks pending removes
\* the chunk at the head of the queue and no other, the k - 1 chunks behind it
\* stay pending in their order, and when the step returns on a body that is
\* still not complete it yields that one chunk and the size counter goes
\* down by its length.
C16_StepTakesHeadChunk ==
    /\ [][\A g \in GetIds :
            Dequeues(g) =>
                /\ _stream # <<>>
                /\ gtask'[g].data = Head(_stream)
                /\ _stream' = Tail(_stream)
                /\ _size' = _size]_vars
    /\ [][\A t \in Tasks :
            Yields(t) =>
                /\ ~_body.done
                /\ yielded'[t] = Append(yielded[t], gtask[waitGet[t]].data)
                /\ gtask[waitGet[t]].data \in Range(appended)
                /\ _size' = _size - Len(gtask[waitGet[t]].data)
                /\ _stream' = _stream]_vars

\* a step returned the first of two chunks and the second is still pending
C16_Witness ==
    /\ completes = 0
    /\ Len(appended) = 2
    /\ appended[1] # <<>>
    /\ \E t \in Tasks : yielded[t] = <<appended[1]>>
    /\ _stream = <<appended[2]>>
    /\ _size = Len(appended[2])

\* ---- C17 ------------------------------------------------------------------
\* the iteration step of task t returns in this step
StepReturns(t) == pc[t] = "anext" /\ pc'[t] = "idle"
EndSignalled == \E t \in Tasks : eos[t]

AppendRaises == Len(raised') = Len(raised) + 1 /\ raised'[Len(raised')]

\* C18: an append that raises leaves its chunk at the tail of the queue and
\* counted in the size counter; a set_complete that follows assembles it with
\* the rest; and so long as no iteration step has returned data, every
\* non-empty append after one that raised raises as well.
C18_FailedAppendStays ==
    /\ [][AppendRaises =>
            /\ _stream' = Append(_stream, appended'[Len(appended')])
            /\ _size' = _size + Len(appended'[Len(appended')])]_vars
    /\ []((nAnext = 0 /\ _body.done) =>
            _body.result = Concat(AppendedBeforeComplete))
    /\ [](YieldedBytes = 0 =>
            \A i, j \in 1..Len(raised) :
                (i < j /\ raised[i] /\ appended[j] # <<>>) => raised[j])

\* two appends raised and set_complete assembled both chunks
C18_Witness ==
    /\ raised = <<TRUE, TRUE>>
    /\ appended[2] # <<>>
    /\ nAnext = 0
    /\ appendsAtComplete = Some(2)
    /\ _body.result = appended[1] \o appended[2]
    /\ _size > TheValue(_max_content_length)

\* ---- C19 ------------------------------------------------------------------
\* an append call is made in this step, with this chunk
Appends == Len(appended') = Len(appended) + 1
NewChunk == appended'[Len(appended')]

\* C19: the cap bounds the bytes buffered, not the bytes ever appended: an
\* append succeeds whenever the bytes appended so far, less the bytes
\* iteration has yielded, plus the new chunk's length are within the cap,
\* even when the total appended goes over it (cap 2: append 2 bytes, iterate
\* yielding 2 bytes, append 2 bytes succeeds); and while iteration has yielded
\* nothing the counter is the total appended.
C19_CapBoundsBuffered ==
    /\ [][(/\ Appends
            /\ _max_content_length # None
            /\ TotalLen(appended) - YieldedBytes + Len(NewChunk)
                   <= TheValue(_max_content_length))
           => ~raised'[Len(raised')]]_vars
    /\ [][(/\ Appends
            /\ _max_content_length = Some(2)
            /\ TotalLen(appended) = 2 /\ YieldedBytes = 2 /\ Len(NewChunk) = 2)
           => (~raised'[Len(raised')] /\ _size' = 2)]_vars
    /\ [](YieldedBytes = 0 => _size = TotalLen(appended))

\* four bytes went through a body capped at two, and no append raised
C19_Witness ==
    /\ _max_content_length = Some(2)
    /\ Len(appended) = 2
    /\ Len(appended[1]) = 2 /\ Len(appended[2]) = 2
    /\ raised = <<FALSE, FALSE>>
    /\ YieldedBytes = 2
    /\ _size = 2

\* ---- C20 ------------------------------------------------------------------
Loaded == _form # None

\* C20: the two caches are set together: _form is unset exactly when _files
\* is unset; they are set only once the body is complete, both from the
\* body's full read; and a request with no Content-Type, or with one that is
\* neither urlencoded nor multipart, ends with both mappings set and empty.
C20_CachesSetTogether ==
    /\ (_form = None) <=> (_files = None)
    /\ Loaded <=> loads > 0
    /\ Loaded =>
        /\ _body.done
        /\ _body.result \in fullReads
        /\ TheValue(_form).from \in {<<>>, _body.result}
        /\ TheValue(_files).from \in {<<>>, _body.result}
        /\ (decodes /\ IsFormType(headers.content_type)) =>
               (TheValue(_form).filled = "fields"
                    /\ TheValue(_form).from = _body.result)
        /\ (decodes /\ headers.content_type = Some("multipart/form-data")) =>
               (TheValue(_files).filled = "files"
                    /\ TheValue(_files).from = _body.result)
        /\ ~IsFormType(headers.content_type) =>
               (_form = Some(EmptyMultiDict) /\ _files = Some(EmptyMultiDict))

\* a text/plain request whose body held bytes: both caches set and empty
C20_Witness ==
    /\ headers.content_type = Some("text/plain")
    /\ _body.result # <<>>
    /\ _form = Some(EmptyMultiDict)
    /\ _files = Some(EmptyMultiDict)
    /\ loads = 1

====
